---------------------------- MODULE Spec2Model ----------------------------
(***************************************************************************)
(* Model of server.py: the story / contact-message service on top of a    *)
(* Firestore document store.                                              *)
(*                                                                         *)
(* A datetime is the record [second, microsecond, tzinfo]; the date, hour  *)
(* and minute are the same for every instant of the model and are left out *)
(* of the ISO-8601 text, which is a sequence of one-character strings:     *)
(*     T SS [ . ffffff ] [ +00:00 ]                                        *)
(* A stored document and a request payload are functions from field names  *)
(* to values; a field that is absent is absent from the domain.            *)
(***************************************************************************)
EXTENDS Integers, Sequences, FiniteSets, TLC

\* ------------------------------------------------------------ bounds
\* uuid4 values the create handlers may draw (creates that reach the constructor)
MaxCreate == 2
\* the server's clock is read at half-second ticks 0 .. MaxTick
MaxTick == 1
\* writes and deletes made in the store by others than this API
MaxOob == 1
\* requests in flight in the concurrent specification
MaxReq == 2
\* documents the shared "stories" collection holds at a time
MaxDocuments == MaxCreate + 1

\* readings of datetime.now(timezone.utc)
Instants ==
    {[second |-> t \div 2, microsecond |-> (t % 2) * 500000, tzinfo |-> "UTC"] :
        t \in 0 .. MaxTick}

\* ------------------------------------------------------------ datetime
DigitChars == <<"0", "1", "2", "3", "4", "5", "6", "7", "8", "9">>

IsDigit(c) == \E i \in 1 .. 10 : DigitChars[i] = c

DigitVal(c) == (CHOOSE i \in 1 .. 10 : DigitChars[i] = c) - 1

RECURSIVE Pad(_, _)
\* n written in exactly w decimal digits, zero padded ("%02d", "%06d")
Pad(n, w) == IF w = 0 THEN <<>> ELSE Pad(n \div 10, w - 1) \o <<DigitChars[(n % 10) + 1]>>

RECURSIVE Num(_)
\* the number a sequence of digits writes
Num(s) == IF Len(s) = 0 THEN 0 ELSE 10 * Num(SubSeq(s, 1, Len(s) - 1)) + DigitVal(s[Len(s)])

AllDigits(s) == \A i \in 1 .. Len(s) : IsDigit(s[i])

UtcOffset == <<"+", "0", "0", ":", "0", "0">>

\* isoformat(timespec="seconds"): the fraction is never written
IsoFormat_Seconds(dt) ==
    <<"T">> \o Pad(dt.second, 2) \o (IF dt.tzinfo = "UTC" THEN UtcOffset ELSE <<>>)

\* datetime.isoformat(): the fraction is written only when microsecond # 0,
\* the offset only when the datetime is aware
IsoFormat(dt) ==
    <<"T">> \o Pad(dt.second, 2)
        \o (IF dt.microsecond # 0 THEN <<".">> \o Pad(dt.microsecond, 6) ELSE <<>>)
        \o (IF dt.tzinfo = "UTC" THEN UtcOffset ELSE <<>>)

\* the part of an ISO text after T SS: the fraction, then the offset
FractionLen(rest) ==
    IF Len(rest) >= 1 /\ rest[1] = "."
    THEN IF Len(rest) >= 7 /\ AllDigits(SubSeq(rest, 2, 7)) THEN 7
         ELSE IF Len(rest) >= 4 /\ AllDigits(SubSeq(rest, 2, 4)) THEN 4
         ELSE -1
    ELSE 0

\* datetime.fromisoformat accepts the text (otherwise it raises ValueError)
IsIsoFormat(s) ==
    /\ Len(s) >= 3
    /\ s[1] = "T"
    /\ AllDigits(SubSeq(s, 2, 3))
    /\ Num(SubSeq(s, 2, 3)) <= 59
    /\ LET rest == SubSeq(s, 4, Len(s))
           n == FractionLen(rest)
       IN  /\ n >= 0
           /\ SubSeq(rest, n + 1, Len(rest)) \in {<<>>, UtcOffset}

\* datetime.fromisoformat on a text it accepts
FromIsoFormat(s) ==
    LET rest == SubSeq(s, 4, Len(s))
        n == FractionLen(rest)
        digits == SubSeq(rest, 2, n)
    IN  [second |-> Num(SubSeq(s, 2, 3)),
         microsecond |-> IF n = 0 THEN 0
                         ELSE IF n = 7 THEN Num(digits) ELSE 1000 * Num(digits),
         tzinfo |-> IF SubSeq(rest, n + 1, Len(rest)) = UtcOffset THEN "UTC" ELSE "None"]

\* datetime.now().year: the server's local calendar passes from 2025 to 2026
\* half a second into the minute of the model
LocalYear(now) == IF now.second = 0 /\ now.microsecond < 500000 THEN "2025" ELSE "2026"

\* ------------------------------------------------------------ record types
\* default=str(uuid.uuid4()): the id is drawn once, when the class is defined
Uuid4_Once(drawn) == "uuid-1"

\* uuid.uuid4() as text. Two calls never return the same value; which value a
\* call returns makes no difference to the handlers, so the create handlers are
\* given the values in a fixed order, and a listing draws from ListingUuids,
\* apart from them
Uuid4(drawn) == "uuid-" \o ToString(Cardinality(drawn) + 1)

ListingUuids == {"uuid-l" \o ToString(i) : i \in 1 .. (MaxOob + 1)}

StoryCreateFields == {"author", "title", "story"}

ContactMessageCreateFields == {"name", "email", "message"}

\* the handler takes the body as a plain dict: nothing is required of it
Validates_Lax(payload, fields) == TRUE

\* the request body is accepted as the input model (FastAPI answers 422 otherwise)
Validates(payload, fields) == fields \subseteq DOMAIN payload

\* the handler passes the request body on as it came
ModelDump_All(payload, fields) == payload

\* input.model_dump(): the declared fields only
ModelDump(payload, fields) == [f \in fields \cap DOMAIN payload |-> payload[f]]

\* Story(**data) raises ValidationError
StoryRequired == {"author", "title", "story"}

StoryValid(data) == StoryRequired \subseteq DOMAIN data

\* Story(**data): extra keys ignored, default factories for id, year, timestamp
Story(data, uid, now) ==
    [id |-> IF "id" \in DOMAIN data THEN data["id"] ELSE uid,
     author |-> data["author"],
     title |-> data["title"],
     story |-> data["story"],
     year |-> IF "year" \in DOMAIN data THEN data["year"] ELSE LocalYear(now),
     timestamp |-> IF "timestamp" \in DOMAIN data THEN data["timestamp"] ELSE now]

ContactMessageRequired == {"name", "email", "message"}

ContactMessageValid(data) == ContactMessageRequired \subseteq DOMAIN data

\* ContactMessage(**data)
ContactMessage(data, uid, now) ==
    [id |-> IF "id" \in DOMAIN data THEN data["id"] ELSE uid,
     name |-> data["name"],
     email |-> data["email"],
     message |-> data["message"],
     timestamp |-> IF "timestamp" \in DOMAIN data THEN data["timestamp"] ELSE now]

\* data = obj.model_dump(); data["timestamp"] = obj.timestamp.isoformat()
Document(obj) == [f \in DOMAIN obj |-> IF f = "timestamp" THEN IsoFormat(obj[f]) ELSE obj[f]]

\* ------------------------------------------------------------ store
EmptyCollection == [k \in {} |-> k]

\* the write replaces the content of the collection
Set_Replace(collection, key, data) == [k \in {key} |-> data]

\* db.collection(c).document(key).set(data)
Set(collection, key, data) ==
    [k \in DOMAIN collection \cup {key} |-> IF k = key THEN data ELSE collection[k]]

Remove(collection, key) == [k \in DOMAIN collection \ {key} |-> collection[k]]

RECURSIVE Orders(_)
\* the sequences that hold every element of a set once
Orders(keys) ==
    IF keys = {} THEN {<<>>}
    ELSE UNION {{<<k>> \o o : o \in Orders(keys \ {k})} : k \in keys}

\* the orders in which db.collection(c).stream() may yield the documents
ScanOrders(collection) == Orders(DOMAIN collection)

\* ------------------------------------------------------------ sorting
\* the sort key: datetimes order by instant
Instant(dt) == dt.second * 1000000 + dt.microsecond

\* comparing an aware with a naive datetime raises TypeError
Comparable(records) ==
    \A i \in 2 .. Len(records) : records[i].timestamp.tzinfo = records[1].timestamp.tzinfo

RECURSIVE InsertDescending(_, _)
\* x put after every element whose key is >= its own (the sort is stable)
InsertDescending(sorted, x) ==
    IF Len(sorted) = 0 THEN <<x>>
    ELSE IF Instant(Head(sorted).timestamp) >= Instant(x.timestamp)
         THEN <<Head(sorted)>> \o InsertDescending(Tail(sorted), x)
         ELSE <<x>> \o sorted

\* return result: the list is returned in scan order
SortedDescending_Unsorted(result) == result

RECURSIVE SortedDescending(_)
\* sorted(result, key=lambda x: x.timestamp, reverse=True)
SortedDescending(result) ==
    IF Len(result) = 0 THEN <<>>
    ELSE InsertDescending(SortedDescending(SubSeq(result, 1, Len(result) - 1)),
                          result[Len(result)])

\* ------------------------------------------------------------ state
VARIABLES
    stories,            \* db.collection("stories"): document key -> document
    contact_messages,   \* db.collection("contact_messages")
    issued,             \* the uuid4 values the create handlers have drawn
    resp,               \* the response to the last request answered
    call,               \* what the last step did: operation, payload, store call, exception
    returned,           \* the Story records successful create_story calls returned
    returnedMessages,   \* the ContactMessage records save_contact_message returned
    created,            \* successful creates per collection
    oob,                \* writes and deletes made in the store by others
    pending,            \* requests in flight (concurrent specification)
    overlapped          \* a create was received while another create was in flight

vars == <<stories, contact_messages, issued, resp, call, returned, returnedMessages,
          created, oob, pending, overlapped>>

\* ------------------------------------------------------------ inputs
CallerInstant == [second |-> 59, microsecond |-> 0, tzinfo |-> "UTC"]

\* request bodies of POST /stories: complete, complete with fields the input
\* model does not declare (the caller's own id, timestamp and year), incomplete
StoryPayloads ==
    { [author |-> "ann", title |-> "t", story |-> "s"],
      [author |-> "ann", title |-> "t", story |-> "s",
       id |-> "uuid-2", timestamp |-> CallerInstant, year |-> "1999", extra |-> "x"],
      [title |-> "t", story |-> "s", id |-> "uuid-2"] }

\* request bodies of POST /contact
ContactPayloads ==
    { [name |-> "ann", email |-> "e", message |-> "m"],
      [name |-> "ann", email |-> "e", message |-> "m",
       id |-> "uuid-2", timestamp |-> CallerInstant, extra |-> "x"],
      [name |-> "ann", email |-> "e"] }

\* the key of the next document others add to "stories"
OobKey(n) == "doc-" \o ToString(n + 1)

WellFormed(key) ==
    [id |-> key, author |-> "eve", title |-> "t", story |-> "s", year |-> "2024",
     timestamp |-> IsoFormat([second |-> 30, microsecond |-> 250000, tzinfo |-> "UTC"])]

Without(doc, field) == [f \in DOMAIN doc \ {field} |-> doc[f]]

\* documents others may put under a key of "stories": well formed, with a
\* timestamp that carries no offset, with a timestamp that is no ISO text,
\* without timestamp, without author, and without the fields Story has defaults
\* for
OobDocuments(key) ==
    { WellFormed(key),
      [WellFormed(key) EXCEPT !.timestamp = <<"T", "0", "0", ".", "2", "5", "0">>],
      [WellFormed(key) EXCEPT !.timestamp = <<"x">>],
      Without(WellFormed(key), "timestamp"),
      Without(WellFormed(key), "author"),
      Without(Without(WellFormed(key), "id"), "year") }

NoCall == [op |-> "none", payload |-> EmptyCollection, put |-> "none", scan |-> FALSE,
           exc |-> "none"]

Response(status, detail, body) == [status |-> status, detail |-> detail, body |-> body]

\* the last step answered no request
NoResponse == Response(0, "", <<>>)

Init ==
    /\ stories = EmptyCollection
    /\ contact_messages = EmptyCollection
    /\ issued = {}
    /\ resp = NoResponse
    /\ call = NoCall
    /\ returned = {}
    /\ returnedMessages = {}
    /\ created = [stories |-> 0, contact_messages |-> 0]
    /\ oob = 0
    /\ pending = EmptyCollection
    /\ overlapped = FALSE

\* ------------------------------------------------------------ handlers
\* document("latest"): every record is stored under one key
DocumentKey_Fixed(obj) == "latest"

\* document(story_obj.id): the key the record is stored under
DocumentKey(obj) == obj.id

\* the exception's own text is passed on as the detail
AddStoryError_Detail == Response(500, "store unavailable", <<>>)

\* raise HTTPException(status_code=500, detail="Failed to add story")
AddStoryError == Response(500, "Failed to add story", <<>>)

\* raise HTTPException(status_code=500, detail="Failed to fetch stories")
FetchStoriesError == Response(500, "Failed to fetch stories", <<>>)

\* raise HTTPException(status_code=500, detail="Failed to send message")
SendMessageError == Response(500, "Failed to send message", <<>>)

\* FastAPI's answer to a body the input model rejects
ValidationRejected == Response(422, "field required", <<>>)

\* a POST body that is not an instance of the handler's input model is answered
\* by FastAPI; the handler is not entered
request_validation(op, payload, fields) ==
    /\ ~Validates(payload, fields)
    /\ resp' = ValidationRejected
    /\ call' = [NoCall EXCEPT !.op = op, !.payload = payload,
                              !.exc = "RequestValidationError"]
    /\ UNCHANGED <<stories, contact_messages, issued, returned, returnedMessages, created,
                   oob, pending, overlapped>>

\* the try block of create_story: the exception it ends with ("none": it returns),
\* the collection it issued a write to, and the record it built
TryCreateStory(payload, uid, now, storeOk) ==
    LET data == ModelDump(payload, StoryCreateFields)
    IN  IF ~StoryValid(data)
        THEN [exc |-> "ValidationError", put |-> "none", body |-> <<>>]
        ELSE [exc |-> IF storeOk THEN "none" ELSE "StoreError", put |-> "stories",
              body |-> <<Story(data, uid, now)>>]

\* create_story from its first line to its response
CreateStoryRun(payload, uid, now, storeOk) ==
    \E try \in {TryCreateStory(payload, uid, now, storeOk)} :
        /\ call' = [NoCall EXCEPT !.op = "create_story", !.payload = payload,
                                  !.exc = try.exc, !.put = try.put]
        /\ IF try.exc = "none"
           THEN /\ stories' = Set(stories, DocumentKey(try.body[1]), Document(try.body[1]))
                /\ resp' = Response(200, "", try.body)
                /\ returned' = returned \cup {try.body[1]}
                /\ created' = [created EXCEPT !.stories = @ + 1]
           ELSE /\ resp' = AddStoryError
                /\ UNCHANGED <<stories, returned, created>>
        /\ UNCHANGED <<contact_messages, returnedMessages, oob>>

\* POST /api/stories
create_story(payload, uid, now, storeOk) ==
    /\ Validates(payload, StoryCreateFields)
    /\ Cardinality(issued) < MaxCreate
    /\ uid = Uuid4(issued)
    /\ issued' = issued \cup {uid}
    /\ CreateStoryRun(payload, uid, now, storeOk)
    /\ UNCHANGED <<pending, overlapped>>

\* the try block of save_contact_message
TrySaveContactMessage(payload, uid, now, storeOk) ==
    LET data == ModelDump(payload, ContactMessageCreateFields)
    IN  IF ~ContactMessageValid(data)
        THEN [exc |-> "ValidationError", put |-> "none", body |-> <<>>]
        ELSE [exc |-> IF storeOk THEN "none" ELSE "StoreError", put |-> "contact_messages",
              body |-> <<ContactMessage(data, uid, now)>>]

\* save_contact_message from its first line to its response
SaveContactMessageRun(payload, uid, now, storeOk) ==
    \E try \in {TrySaveContactMessage(payload, uid, now, storeOk)} :
        /\ call' = [NoCall EXCEPT !.op = "save_contact_message", !.payload = payload,
                                  !.exc = try.exc, !.put = try.put]
        /\ IF try.exc = "none"
           THEN /\ contact_messages' =
                       Set(contact_messages, DocumentKey(try.body[1]), Document(try.body[1]))
                /\ resp' = Response(200, "", try.body)
                /\ returnedMessages' = returnedMessages \cup {try.body[1]}
                /\ created' = [created EXCEPT !.contact_messages = @ + 1]
           ELSE /\ resp' = SendMessageError
                /\ UNCHANGED <<contact_messages, returnedMessages, created>>
        /\ UNCHANGED <<stories, returned, oob>>

\* POST /api/contact
save_contact_message(payload, uid, now, storeOk) ==
    /\ Validates(payload, ContactMessageCreateFields)
    /\ Cardinality(issued) < MaxCreate
    /\ uid = Uuid4(issued)
    /\ issued' = issued \cup {uid}
    /\ SaveContactMessageRun(payload, uid, now, storeOk)
    /\ UNCHANGED <<pending, overlapped>>

\* the exception the loop body of get_stories raises on a document ("none": none)
DocumentError(data) ==
    IF "timestamp" \notin DOMAIN data THEN "KeyError"
    ELSE IF ~IsIsoFormat(data["timestamp"]) THEN "ValueError"
    ELSE IF ~StoryValid(data) THEN "ValidationError"
    ELSE "none"

\* data["timestamp"] = datetime.fromisoformat(data["timestamp"]); Story(**data)
ParseStory(data, uid, now) ==
    Story([data EXCEPT !["timestamp"] = FromIsoFormat(data["timestamp"])], uid, now)

\* the keys of the documents for which Story(**data) calls uuid4
WithoutId(collection) == {k \in DOMAIN collection : "id" \notin DOMAIN collection[k]}

\* the loop body of get_stories on each document of the collection: the
\* exception it raises ("none": none) and the Story it appends to result
LoopBody(collection, uids, now) ==
    [key \in DOMAIN collection |->
        LET error == DocumentError(collection[key])
        IN  [exc |-> error,
             story |-> IF error # "none" THEN <<>>
                       ELSE <<ParseStory(collection[key],
                                         IF key \in DOMAIN uids THEN uids[key] ELSE "",
                                         now)>>]]

\* return sorted(result, key=lambda x: x.timestamp, reverse=True)
ReturnSorted(result) ==
    IF ~Comparable(result) THEN [exc |-> "TypeError", body |-> <<>>]
    ELSE [exc |-> "none", body |-> SortedDescending(result)]

RECURSIVE ForEachDocument_Skip(_, _, _)
\* the loop passes over a document its body raises on
ForEachDocument_Skip(docs, order, result) ==
    IF Len(order) = 0 THEN ReturnSorted(result)
    ELSE ForEachDocument_Skip(docs, Tail(order), result \o docs[Head(order)].story)

RECURSIVE ForEachDocument(_, _, _)
\* the loop of get_stories over the documents in scan order, then the sort: the
\* exception it ends with ("none": it returns) and the list it returns
ForEachDocument(docs, order, result) ==
    IF Len(order) = 0 THEN ReturnSorted(result)
    ELSE IF docs[Head(order)].exc # "none"
         THEN [exc |-> docs[Head(order)].exc, body |-> <<>>]
         ELSE ForEachDocument(docs, Tail(order), result \o docs[Head(order)].story)

\* the try block of get_stories; docs is what the loop body makes of each document
TryGetStories(docs, order, scanOk) ==
    IF ~scanOk THEN [exc |-> "StoreError", body |-> <<>>]
    ELSE ForEachDocument(docs, order, <<>>)

\* get_stories from its first line to its response. The store yields the
\* documents in an order of its own.
GetStoriesRun(uids, now, scanOk) ==
    /\ \E docs \in {LoopBody(stories, uids, now)} :
       \E order \in IF scanOk THEN ScanOrders(stories) ELSE {<<>>} :
       \E try \in {TryGetStories(docs, order, scanOk)} :
          /\ call' = [NoCall EXCEPT !.op = "get_stories", !.scan = TRUE, !.exc = try.exc]
          /\ resp' = IF try.exc = "none" THEN Response(200, "", try.body)
                     ELSE FetchStoriesError
    /\ UNCHANGED <<stories, contact_messages, issued, returned, returnedMessages,
                   created, oob>>

\* GET /api/stories
get_stories(uids, now, scanOk) ==
    /\ GetStoriesRun(uids, now, scanOk)
    /\ UNCHANGED <<pending, overlapped>>

\* uuid4 values for the documents that carry no id, no two the same
ListingIds(collection) ==
    {u \in [WithoutId(collection) -> ListingUuids] :
        \A j, k \in WithoutId(collection) : u[j] = u[k] => j = k}

\* the clock readings that make a difference to a listing: datetime.now() is
\* called only for a document that carries no year, and only for its year
ListingInstants(collection) ==
    IF \E k \in DOMAIN collection : "year" \notin DOMAIN collection[k]
    THEN {CHOOSE now \in Instants : LocalYear(now) = y : y \in {LocalYear(t) : t \in Instants}}
    ELSE {CHOOSE now \in Instants : TRUE}

\* ------------------------------------------------------------ the store's other users
\* a document is put into "stories" by another writer
OutOfBandPut(key, data) ==
    /\ oob < MaxOob
    /\ oob' = oob + 1
    /\ stories' = Set(stories, key, data)
    /\ call' = [NoCall EXCEPT !.op = "out_of_band"]
    /\ resp' = NoResponse
    /\ UNCHANGED <<contact_messages, issued, returned, returnedMessages, created, pending,
                   overlapped>>

\* a document of "stories" is deleted in the backing store
OutOfBandDelete(key) ==
    /\ oob < MaxOob
    /\ key \in DOMAIN stories
    /\ oob' = oob + 1
    /\ stories' = Remove(stories, key)
    /\ call' = [NoCall EXCEPT !.op = "out_of_band"]
    /\ resp' = NoResponse
    /\ UNCHANGED <<contact_messages, issued, returned, returnedMessages, created, pending,
                   overlapped>>

\* ------------------------------------------------------------ one request at a time
\* the requests of the API, each handled from its first line to its response
Request ==
    \/ \E payload \in StoryPayloads :
           request_validation("create_story", payload, StoryCreateFields)
    \/ \E payload \in ContactPayloads :
           request_validation("save_contact_message", payload, ContactMessageCreateFields)
    \/ \E payload \in StoryPayloads, now \in Instants, storeOk \in BOOLEAN :
           create_story(payload, Uuid4(issued), now, storeOk)
    \/ \E payload \in ContactPayloads, now \in Instants, storeOk \in BOOLEAN :
           save_contact_message(payload, Uuid4(issued), now, storeOk)
    \/ \E uids \in ListingIds(stories), now \in ListingInstants(stories) :
           get_stories(uids, now, TRUE)
    \/ get_stories(<<>>, CHOOSE now \in Instants : TRUE, FALSE)

Next == Request

\* the API is the only writer of the store
Spec == Init /\ [][Next]_vars

\* ------------------------------------------------------------ a shared store
NextStore ==
    \/ /\ Cardinality(DOMAIN stories) < MaxDocuments
       /\ \E payload \in StoryPayloads, now \in Instants, storeOk \in BOOLEAN :
              create_story(payload, Uuid4(issued), now, storeOk)
    \/ \E uids \in ListingIds(stories), now \in ListingInstants(stories) :
           get_stories(uids, now, TRUE)
    \/ get_stories(<<>>, CHOOSE now \in Instants : TRUE, FALSE)
    \/ /\ Cardinality(DOMAIN stories) < MaxDocuments
       /\ \E data \in OobDocuments(OobKey(oob)) : OutOfBandPut(OobKey(oob), data)
    \/ \E key \in DOMAIN stories : OutOfBandDelete(key)

\* the "stories" collection is written by the API and by others
SpecStore == Init /\ [][NextStore]_vars

\* ------------------------------------------------------------ concurrent requests
\* a request takes a slot, and leaves it
Hold(slots, r, request) == [k \in DOMAIN slots \cup {r} |-> IF k = r THEN request ELSE slots[k]]

Release(slots, r) == [k \in DOMAIN slots \ {r} |-> slots[k]]

\* a request slot that holds no request
FreeSlots == (1 .. MaxReq) \ DOMAIN pending

\* a create is between its constructor and its store call
CreateInFlight ==
    \E r \in DOMAIN pending : pending[r].op \in {"create_story", "save_contact_message"}

\* create_story up to its store call: the body is validated, the uuid drawn and
\* the clock read
begin_create_story(r, payload, uid, now) ==
    /\ r \in FreeSlots
    /\ Validates(payload, StoryCreateFields)
    /\ Cardinality(issued) < MaxCreate
    /\ uid = Uuid4(issued)
    /\ issued' = issued \cup {uid}
    /\ pending' = Hold(pending, r, [op |-> "create_story", payload |-> payload,
                                   uid |-> uid, now |-> now])
    /\ overlapped' = (overlapped \/ CreateInFlight)
    /\ UNCHANGED <<stories, contact_messages, resp, call, returned, returnedMessages,
                   created, oob>>

\* the store call of create_story and its response
end_create_story(r, storeOk) ==
    /\ r \in DOMAIN pending
    /\ pending[r].op = "create_story"
    /\ CreateStoryRun(pending[r].payload, pending[r].uid, pending[r].now, storeOk)
    /\ pending' = Release(pending, r)
    /\ UNCHANGED <<issued, overlapped>>

\* save_contact_message up to its store call
begin_save_contact_message(r, payload, uid, now) ==
    /\ r \in FreeSlots
    /\ Validates(payload, ContactMessageCreateFields)
    /\ Cardinality(issued) < MaxCreate
    /\ uid = Uuid4(issued)
    /\ issued' = issued \cup {uid}
    /\ pending' = Hold(pending, r, [op |-> "save_contact_message", payload |-> payload,
                                   uid |-> uid, now |-> now])
    /\ overlapped' = (overlapped \/ CreateInFlight)
    /\ UNCHANGED <<stories, contact_messages, resp, call, returned, returnedMessages,
                   created, oob>>

\* the store call of save_contact_message and its response
end_save_contact_message(r, storeOk) ==
    /\ r \in DOMAIN pending
    /\ pending[r].op = "save_contact_message"
    /\ SaveContactMessageRun(pending[r].payload, pending[r].uid, pending[r].now, storeOk)
    /\ pending' = Release(pending, r)
    /\ UNCHANGED <<issued, overlapped>>

\* get_stories is received
begin_get_stories(r) ==
    /\ r \in FreeSlots
    /\ pending' = Hold(pending, r, [op |-> "get_stories"])
    /\ UNCHANGED <<stories, contact_messages, issued, resp, call, returned,
                   returnedMessages, created, oob, overlapped>>

\* the scan of get_stories, its loop and its response
end_get_stories(r, uids, now, scanOk) ==
    /\ r \in DOMAIN pending
    /\ pending[r].op = "get_stories"
    /\ GetStoriesRun(uids, now, scanOk)
    /\ pending' = Release(pending, r)
    /\ UNCHANGED overlapped

NextConcurrent ==
    \/ \E r \in FreeSlots, payload \in StoryPayloads, now \in Instants :
           begin_create_story(r, payload, Uuid4(issued), now)
    \/ \E r \in DOMAIN pending, storeOk \in BOOLEAN : end_create_story(r, storeOk)
    \/ \E r \in FreeSlots, payload \in ContactPayloads, now \in Instants :
           begin_save_contact_message(r, payload, Uuid4(issued), now)
    \/ \E r \in DOMAIN pending, storeOk \in BOOLEAN : end_save_contact_message(r, storeOk)
    \/ \E r \in FreeSlots : begin_get_stories(r)
    \/ \E r \in DOMAIN pending, uids \in ListingIds(stories),
          now \in ListingInstants(stories), scanOk \in BOOLEAN :
           end_get_stories(r, uids, now, scanOk)

\* requests are handled concurrently; each waits at its one store call
SpecConcurrent == Init /\ [][NextConcurrent]_vars

\* ------------------------------------------------------------ properties
Range(seq) == {seq[i] : i \in 1 .. Len(seq)}

\* the list is ordered by timestamp, newest first
IsDescending(body) ==
    \A i \in 1 .. Len(body) - 1 :
        Instant(body[i].timestamp) >= Instant(body[i + 1].timestamp)

\* the document parses: it has a timestamp that is an ISO text, and the fields
\* Story requires
Parses(doc) ==
    /\ "timestamp" \in DOMAIN doc
    /\ IsIsoFormat(doc["timestamp"])
    /\ {"author", "title", "story"} \subseteq DOMAIN doc

AllParse(collection) == \A k \in DOMAIN collection : Parses(collection[k])

\* the timestamps all carry an offset, or none does
MutuallyComparable(collection) ==
    \A j, k \in DOMAIN collection :
        FromIsoFormat(collection[j]["timestamp"]).tzinfo
            = FromIsoFormat(collection[k]["timestamp"]).tzinfo

\* the list holds one record for each document of a collection whose documents
\* all parse
ListsAll(body, collection) ==
    /\ Len(body) = Cardinality(DOMAIN collection)
    /\ \A k \in DOMAIN collection :
           \E i \in 1 .. Len(body) :
               /\ body[i].author = collection[k]["author"]
               /\ body[i].title = collection[k]["title"]
               /\ body[i].story = collection[k]["story"]
               /\ body[i].timestamp = FromIsoFormat(collection[k]["timestamp"])
               /\ "id" \in DOMAIN collection[k] => body[i].id = collection[k]["id"]

\* the last step was a listing whose scan of the collection did not raise
ListingScanned == call.op = "get_stories" /\ call.exc # "StoreError"

\* C1, as stated: whenever every document of "stories" parses, a listing (whose
\* scan does not raise) returns all of them ordered by timestamp, newest first,
\* whatever the order in which the store yields them.
StoriesListedDescending ==
    (ListingScanned /\ AllParse(stories))
        => /\ resp.status = 200
           /\ IsDescending(resp.body)
           /\ ListsAll(resp.body, stories)

\* C1, amended: whenever every document of "stories" parses and the parsed
\* timestamps are mutually comparable (all carry an offset, as every timestamp
\* the API writes does, or none does), a listing whose scan does not raise
\* returns all of them ordered by timestamp, newest first, whatever the order in
\* which the store yields them.
ComparableStoriesListedDescending ==
    (ListingScanned /\ AllParse(stories) /\ MutuallyComparable(stories))
        => /\ resp.status = 200
           /\ IsDescending(resp.body)
           /\ ListsAll(resp.body, stories)

\* three stories with timestamps T1 < T2 < T3 were listed as [T3, T2, T1]
ThreeStoriesListedNewestFirst ==
    /\ call.op = "get_stories"
    /\ resp.status = 200
    /\ Cardinality(DOMAIN stories) = 3
    /\ Len(resp.body) = 3
    /\ Instant(resp.body[1].timestamp) > Instant(resp.body[2].timestamp)
    /\ Instant(resp.body[2].timestamp) > Instant(resp.body[3].timestamp)

\* an API-written story and a parseable document whose timestamp carries no
\* offset: the listing is answered with the 500
MixedTimestampsListed ==
    /\ ListingScanned
    /\ AllParse(stories)
    /\ ~MutuallyComparable(stories)
    /\ resp.status = 500

\* C2: when the store raises on the write of create_story, the response is the
\* 500 with detail "Failed to add story" and no body, no document of the request
\* is visible, and both collections are what they were before the call.
StoreFailureOnCreate ==
    [][(call'.op = "create_story" /\ call'.exc = "StoreError")
          => /\ resp' = [status |-> 500, detail |-> "Failed to add story", body |-> <<>>]
             /\ \A u \in issued' \ issued : u \notin DOMAIN stories'
             /\ stories' = stories
             /\ contact_messages' = contact_messages]_vars

\* a create on which the store raised, after one that stored a story
AddStoryFailed ==
    /\ call.op = "create_story"
    /\ call.exc = "StoreError"
    /\ resp.status = 500
    /\ DOMAIN stories # {}

\* C3: the id a create returned is the key its document is stored under and
\* the document's id field; no two documents, of either collection, share an
\* id; each collection holds as many documents as creates on it succeeded.
IdsAndKeys ==
    /\ \A r \in returned : r.id \in DOMAIN stories /\ stories[r.id]["id"] = r.id
    /\ \A r \in returnedMessages :
           r.id \in DOMAIN contact_messages /\ contact_messages[r.id]["id"] = r.id
    /\ (call.op = "create_story" /\ resp.status = 200) => resp.body[1] \in returned
    /\ (call.op = "save_contact_message" /\ resp.status = 200)
           => resp.body[1] \in returnedMessages
    /\ \A k \in DOMAIN stories : stories[k]["id"] = k
    /\ \A k \in DOMAIN contact_messages : contact_messages[k]["id"] = k
    /\ DOMAIN stories \cap DOMAIN contact_messages = {}
    /\ Cardinality({r.id : r \in returned}) = created.stories
    /\ Cardinality({r.id : r \in returnedMessages}) = created.contact_messages
    /\ Cardinality(DOMAIN stories) = created.stories
    /\ Cardinality(DOMAIN contact_messages) = created.contact_messages

\* two creates on "stories" succeeded
TwoStoriesCreated ==
    /\ call.op = "create_story"
    /\ resp.status = 200
    /\ created.stories = 2
    /\ Cardinality(DOMAIN stories) = 2

\* C4: with the API the only writer of the store, a listing that succeeds
\* holds, for every create_story that succeeded, a record equal field for field
\* to the one that create returned, the timestamp included, which went through
\* isoformat and fromisoformat on the way.
CreatedStoriesListed ==
    (call.op = "get_stories" /\ resp.status = 200)
        => /\ \A r \in returned : r \in Range(resp.body)
           /\ Len(resp.body) = Cardinality(returned)

\* a listing of a story created on a whole second and of one created in the
\* middle of a second
StoriesOfBothClocksListed ==
    /\ call.op = "get_stories"
    /\ resp.status = 200
    /\ \E r \in returned : r.timestamp.microsecond = 0 /\ r \in Range(resp.body)
    /\ \E r \in returned : r.timestamp.microsecond # 0 /\ r \in Range(resp.body)

\* C5: a create whose body lacks a required field is answered with the
\* validation rejection (422, not the masked 500), no store call is issued, and
\* both collections stay what they were.
IncompleteBodyRejected ==
    [][(\/ /\ call'.op = "create_story"
           /\ ~({"author", "title", "story"} \subseteq DOMAIN call'.payload)
        \/ /\ call'.op = "save_contact_message"
           /\ ~({"name", "email", "message"} \subseteq DOMAIN call'.payload))
          => /\ resp'.status = 422
             /\ resp'.status # 500
             /\ call'.put = "none"
             /\ call'.scan = FALSE
             /\ stories' = stories
             /\ contact_messages' = contact_messages]_vars

\* a story body without author was rejected while the collection held a story
StoryWithoutAuthorRejected ==
    /\ call.op = "create_story"
    /\ "author" \notin DOMAIN call.payload
    /\ resp.status = 422
    /\ DOMAIN stories # {}

\* the calendar years the server's clock may be in
ServerYears == {LocalYear(now) : now \in Instants}

\* C6: a create whose body has the required fields is never rejected, whatever
\* other fields the body has; the record returned and the document stored have
\* exactly the fields of the model, the required ones as sent, and an id, a
\* timestamp and a year that are the server's, not the caller's.
ExtraFieldsIgnored ==
    /\ (call.op = "create_story" /\ {"author", "title", "story"} \subseteq DOMAIN call.payload)
           => /\ call.exc \in {"none", "StoreError"}
              /\ resp.status # 422
              /\ call.exc = "none"
                     => /\ resp.status = 200
                        /\ Len(resp.body) = 1
                        /\ DOMAIN resp.body[1]
                               = {"id", "author", "title", "story", "year", "timestamp"}
                        /\ \A f \in {"author", "title", "story"} :
                               resp.body[1][f] = call.payload[f]
                        /\ resp.body[1].id \in issued
                        /\ resp.body[1].timestamp \in Instants
                        /\ resp.body[1].year \in ServerYears
                        /\ resp.body[1].id \in DOMAIN stories
                        /\ stories[resp.body[1].id]
                               = [resp.body[1] EXCEPT
                                     !.timestamp = IsoFormat(resp.body[1].timestamp)]
    /\ (call.op = "save_contact_message"
            /\ {"name", "email", "message"} \subseteq DOMAIN call.payload)
           => /\ call.exc \in {"none", "StoreError"}
              /\ resp.status # 422
              /\ call.exc = "none"
                     => /\ resp.status = 200
                        /\ Len(resp.body) = 1
                        /\ DOMAIN resp.body[1]
                               = {"id", "name", "email", "message", "timestamp"}
                        /\ \A f \in {"name", "email", "message"} :
                               resp.body[1][f] = call.payload[f]
                        /\ resp.body[1].id \in issued
                        /\ resp.body[1].timestamp \in Instants
                        /\ resp.body[1].id \in DOMAIN contact_messages
                        /\ contact_messages[resp.body[1].id]
                               = [resp.body[1] EXCEPT
                                     !.timestamp = IsoFormat(resp.body[1].timestamp)]

\* a story body with an id, a timestamp and a year of the caller's was stored
\* under another id, timestamp and year
CallerFieldsIgnored ==
    /\ call.op = "create_story"
    /\ {"id", "timestamp", "year", "extra"} \subseteq DOMAIN call.payload
    /\ resp.status = 200
    /\ resp.body[1].id # call.payload["id"]
    /\ resp.body[1].timestamp # call.payload["timestamp"]
    /\ resp.body[1].year # call.payload["year"]

\* C7, as stated: a listing that follows a listing, with no write in between,
\* returns the same set of records in timestamp order, and the listing writes
\* nothing to the store.
ListingRepeats ==
    [][(/\ call.op = "get_stories" /\ resp.status = 200
        /\ call'.op = "get_stories" /\ resp'.status = 200)
          => /\ Range(resp'.body) = Range(resp.body)
             /\ IsDescending(resp'.body)
             /\ call'.put = "none"
             /\ stories' = stories
             /\ contact_messages' = contact_messages]_vars

\* C8: no request changes or removes a document a collection holds; a create
\* that succeeds adds exactly one document, to its own collection, and leaves
\* the other collection as it was; every other request leaves both as they were.
WriteOnce ==
    [][/\ \A k \in DOMAIN stories : k \in DOMAIN stories' /\ stories'[k] = stories[k]
       /\ \A k \in DOMAIN contact_messages :
              k \in DOMAIN contact_messages' /\ contact_messages'[k] = contact_messages[k]
       /\ IF call'.op = "create_story" /\ resp'.status = 200
          THEN /\ Cardinality(DOMAIN stories') = Cardinality(DOMAIN stories) + 1
               /\ call'.put = "stories"
               /\ contact_messages' = contact_messages
          ELSE IF call'.op = "save_contact_message" /\ resp'.status = 200
          THEN /\ Cardinality(DOMAIN contact_messages')
                     = Cardinality(DOMAIN contact_messages) + 1
               /\ call'.put = "contact_messages"
               /\ stories' = stories
          ELSE /\ stories' = stories
               /\ contact_messages' = contact_messages]_vars

\* a contact message was stored next to a story stored before
MessageStoredNextToStory ==
    /\ call.op = "save_contact_message"
    /\ resp.status = 200
    /\ Cardinality(DOMAIN stories) = 1
    /\ Cardinality(DOMAIN contact_messages) = 1

\* C9: a listing has two outcomes, the whole list in timestamp order or the 500
\* with detail "Failed to fetch stories" and no body; it is the 500 when the
\* scan raises and when any document of the collection has no timestamp, a
\* timestamp that is no ISO text, or lacks a required field.
FetchFailureMasked ==
    call.op = "get_stories"
        => /\ (call.exc = "StoreError" \/ \E k \in DOMAIN stories : ~Parses(stories[k]))
                  => resp = [status |-> 500, detail |-> "Failed to fetch stories",
                             body |-> <<>>]
           /\ \/ resp = [status |-> 500, detail |-> "Failed to fetch stories",
                         body |-> <<>>]
              \/ /\ resp.status = 200
                 /\ resp.detail = ""
                 /\ Len(resp.body) = Cardinality(DOMAIN stories)
                 /\ IsDescending(resp.body)

\* a listing of a collection with a story of the API and a malformed document
\* failed as a whole
MalformedDocumentFailsListing ==
    /\ ListingScanned
    /\ resp.status = 500
    /\ resp.body = <<>>
    /\ \E k \in DOMAIN stories : ~Parses(stories[k])
    /\ \E k \in DOMAIN stories : Parses(stories[k])

\* C10: with requests handled concurrently, once none is in flight every record
\* a create returned is stored under its id with the content returned, and a
\* listing that succeeds is in timestamp order and holds only records creates
\* returned.
ConcurrentRequestsIndependent ==
    /\ pending = EmptyCollection
           => /\ \A r \in returned :
                     /\ r.id \in DOMAIN stories
                     /\ stories[r.id] = [r EXCEPT !.timestamp = IsoFormat(r.timestamp)]
              /\ \A r \in returnedMessages :
                     /\ r.id \in DOMAIN contact_messages
                     /\ contact_messages[r.id]
                            = [r EXCEPT !.timestamp = IsoFormat(r.timestamp)]
    /\ (call.op = "get_stories" /\ resp.status = 200)
           => /\ IsDescending(resp.body)
              /\ Range(resp.body) \subseteq returned

\* two creates that were in flight together both stored their story, and a
\* listing returned the two
OverlappingCreatesListed ==
    /\ overlapped
    /\ pending = EmptyCollection
    /\ created.stories = 2
    /\ call.op = "get_stories"
    /\ resp.status = 200
    /\ Len(resp.body) = 2

=============================================================================
